---- MODULE Spec2Model ----
(***************************************************************************)
(* A model of ddns.py, the Cloudflare DDNS updater: one run of main(),     *)
(* split at its blocking network calls.  The network (the provider's API   *)
(* and the public-IP echo service) is the environment: every response is   *)
(* drawn from a small set when the call is made.                           *)
(*                                                                         *)
(* Left out: a 2xx response whose body is not JSON (r.json() raising), a   *)
(* record without an 'id' key, argparse exiting on a bad command line, and *)
(* all logging.                                                            *)
(***************************************************************************)
EXTENDS Integers, Sequences, FiniteSets, TLC

\* ---------------------------------------------------------------- bounds
MaxRecords == 2
MaxZones == 1

\* ---------------------------------------------------------------- values
\* Python's None, among string values.
None == "<None>"

\* bool(v) of an Optional[str].
Truthy(v) == v # None /\ v # ""

\* a or b, on Optional[str].
PyOr(a, b) == IF Truthy(a) THEN a ELSE b

\* str.lower() on the values DDNS_DRY_RUN takes here.
Lower(s) ==
    CASE s = "FALSE" -> "false"
      [] s = "No" -> "no"
      [] OTHER -> s

\* str.strip() on the bodies the IP echo service returns here.
Strip(s) ==
    CASE s = "192.0.2.100\n" -> "192.0.2.100"
      [] s = " 192.0.2.1 " -> "192.0.2.1"
      [] OTHER -> s

\* ---------------------------------------------------------------- inputs
Tokens == {None, "", "fake-token"}
ArgValues == {None, "", "example"}
EnvValues == {None, "", "example"}
DryEnvValues == {None, "1", "0", "FALSE", "No", "yes"}

Statuses == {200, 403, 503}
Contents == {None, "192.0.2.1", "192.0.2.100"}
IpTexts == {" 192.0.2.1 ", "192.0.2.100\n", "Service Unavailable"}
ZoneIds == {"", "zone-a", "zone-b"}

\* Sequences over S of length at most n.
SeqUpTo(S, n) == UNION {[1..k -> S] : k \in 0..n}

\* The i-th record of a listing: the provider assigns distinct ids.
RecordId(i) == "rec-" \o ToString(i)
RecordLists ==
    {[i \in 1..Len(cs) |-> [id |-> RecordId(i), content |-> cs[i]]] :
        cs \in SeqUpTo(Contents, MaxRecords)}
ZoneLists == {[i \in 1..Len(zs) |-> [id |-> zs[i]]] : zs \in SeqUpTo(ZoneIds, MaxZones)}

\* A JSON envelope {success, result}; either key may be missing.
Envelope(hs, s, hr, r) == [has_success |-> hs, success |-> s, has_result |-> hr, result |-> r]
NoBody == Envelope(FALSE, FALSE, FALSE, <<>>)
Bodies(Lists) ==
    {Envelope(TRUE, s, TRUE, r) : s \in BOOLEAN, r \in Lists}
        \cup {Envelope(FALSE, FALSE, TRUE, r) : r \in Lists}
        \cup {Envelope(TRUE, s, FALSE, <<>>) : s \in BOOLEAN}

\* What one HTTP request meets: a transport exception (exc), or a response
\* with a status, a JSON body and a text body.
Response(e, st, b, t) == [exc |-> e, status |-> st, body |-> b, text |-> t]
Failures == {Response(TRUE, 0, NoBody, "")}
               \cup {Response(FALSE, st, NoBody, "") : st \in Statuses \ {200}}
JsonResponses(Lists) == Failures \cup {Response(FALSE, 200, b, "") : b \in Bodies(Lists)}
IpResponses == {Response(TRUE, 0, NoBody, "")}
                  \cup {Response(FALSE, st, NoBody, t) : st \in Statuses, t \in IpTexts}
\* The provider answers a PATCH with its envelope around the updated record.
PatchBody(s, data) == [success |-> s, result |-> data]
PatchResponses(data) ==
    {Response(TRUE, 0, PatchBody(FALSE, data), "")}
        \cup {Response(FALSE, st, PatchBody(FALSE, data), "") : st \in Statuses \ {200}}
        \cup {Response(FALSE, 200, PatchBody(s, data), "") : s \in BOOLEAN}

\* ------------------------------------------------------------ operations
\* DRY_RUN, from the environment variable DDNS_DRY_RUN (None: unset).
DryRunFromEnv(e) == Lower(IF e = None THEN "1" ELSE e) \notin {"0", "false", "no"}

\* Response.raise_for_status(): TRUE when it raises HTTPError.
raise_for_status(status) == status >= 400 /\ status < 600

\* cf_get: the JSON body, or a raised RequestException.
cf_get(r) ==
    IF r.exc \/ raise_for_status(r.status)
    THEN [raised |-> TRUE, json |-> NoBody]
    ELSE [raised |-> FALSE, json |-> r.body]

\* resp.get('success') as a condition, and resp.get('result', []).
GetSuccess(resp) == resp.has_success /\ resp.success
GetResult(resp) == IF resp.has_result THEN resp.result ELSE <<>>

\* A get_zone_id that takes the first zone of a response marked unsuccessful.
get_zone_id_IgnoresSuccess(resp) ==
    IF GetResult(resp) = <<>> THEN None ELSE GetResult(resp)[1].id

\* get_zone_id, after its cf_get returned resp.
get_zone_id(resp) ==
    IF ~GetSuccess(resp) THEN None
    ELSE IF GetResult(resp) = <<>> THEN None
    ELSE GetResult(resp)[1].id

\* get_dns_records, after its cf_get returned resp.
get_dns_records(resp) == IF ~GetSuccess(resp) THEN <<>> ELSE GetResult(resp)

\* get_public_ip: the stripped body of whatever response came; only a
\* transport exception raises (the status is not looked at).
get_public_ip(r) ==
    IF r.exc
    THEN [raised |-> TRUE, ip |-> None]
    ELSE [raised |-> FALSE, ip |-> Strip(r.text)]

\* A payload that carries more than the content field.
UpdateData_WithType(ip) == [content |-> ip, type |-> "A"]

\* The payload update_a_record builds.
UpdateData(ip) == [content |-> ip]

\* A cf_patch that sends the request in dry-run mode too.
cf_patch_NoDryRun(dry, data, r) ==
    IF r.exc \/ raise_for_status(r.status)
    THEN [sent |-> TRUE, raised |-> TRUE, resp |-> r.body]
    ELSE [sent |-> TRUE, raised |-> FALSE, resp |-> r.body]

\* cf_patch: sent tells whether requests.patch was called.
cf_patch(dry, data, r) ==
    IF dry
    THEN [sent |-> FALSE, raised |-> FALSE, resp |-> PatchBody(TRUE, data)]
    ELSE IF r.exc \/ raise_for_status(r.status)
    THEN [sent |-> TRUE, raised |-> TRUE, resp |-> r.body]
    ELSE [sent |-> TRUE, raised |-> FALSE, resp |-> r.body]

\* Guard clauses that let an empty token, or a missing record name, through.
MissingToken_IsNone(token) == token = None
MissingNames_ZoneOnly(zone, name) == ~Truthy(zone)

\* The guard clauses of main.
MissingToken(token) == ~Truthy(token)
MissingNames(zone, name) == ~Truthy(zone) \/ ~Truthy(name)

\* A test that also skips a record with no content.
UpToDate_OrAbsent(record, ip) == record.content = ip \/ record.content = None

\* The loop's test: the record is skipped when its content is the new IP.
UpToDate(record, ip) == record.content = ip

\* The two final codes swapped.
Finalize_Swapped(updated) == IF updated THEN 7 ELSE 0

\* What the run returns once the loop is over.
Finalize(updated) == IF ~updated THEN 7 ELSE 0

\* The exit codes main returns elsewhere.
ExitNoToken == 2
ExitNoNames == 6
ExitNoZone == 4
ExitNoRecords == 0
ExitNetworkError == 3

\* A run that goes on after a raised RequestException.
AbortsRun_Never(raised) == FALSE

\* The try block spans the whole run: a raised RequestException ends it.
AbortsRun(raised) == raised

\* ----------------------------------------------------------------- state
VARIABLES
    CLOUDFLARE_API_TOKEN,   \* module global, from the environment
    DRY_RUN,                \* module global, from the environment
    argv,                   \* [zone, name]: the command line's flags
    environ,                \* [zone, name]: DDNS_ZONE_NAME, DDNS_DNS_NAME
    pc,                     \* where main is
    zone_name, dns_name,    \* main's locals
    zone_resp,              \* get_zone_id's resp
    zone_id, records, new_ip, any_updated,
    idx,                    \* the loop's position in records
    exit_code,              \* what main returned (when pc = "done")
    net,                    \* the HTTP requests issued, in order
    updates                 \* the calls of update_a_record, in order

vars == <<CLOUDFLARE_API_TOKEN, DRY_RUN, argv, environ, pc, zone_name, dns_name,
          zone_resp, zone_id, records, new_ip, any_updated, idx, exit_code, net,
          updates>>

config == <<CLOUDFLARE_API_TOKEN, DRY_RUN, argv, environ>>

\* One issued HTTP request and what came of it.
NetEntry(kind, r, raised) ==
    [kind |-> kind, exc |-> r.exc, status |-> r.status, raised |-> raised]

Init ==
    /\ CLOUDFLARE_API_TOKEN \in Tokens
    /\ \E e \in DryEnvValues : DRY_RUN = DryRunFromEnv(e)
    /\ argv \in [zone : ArgValues, name : ArgValues]
    /\ environ \in [zone : EnvValues, name : EnvValues]
    /\ pc = "main"
    /\ zone_name = None
    /\ dns_name = None
    /\ zone_resp = NoBody
    /\ zone_id = None
    /\ records = <<>>
    /\ new_ip = None
    /\ any_updated = FALSE
    /\ idx = 1
    /\ exit_code = 0
    /\ net = <<>>
    /\ updates = <<>>

\* return n
Return(n) == pc' = "done" /\ exit_code' = n

\* main, from its start to the call of get_zone_id.
Validate ==
    /\ pc = "main"
    /\ zone_name' = PyOr(argv.zone, environ.zone)
    /\ dns_name' = PyOr(argv.name, environ.name)
    /\ IF MissingToken(CLOUDFLARE_API_TOKEN) THEN Return(ExitNoToken)
       ELSE IF MissingNames(zone_name', dns_name') THEN Return(ExitNoNames)
       ELSE pc' = "get_zone_id" /\ UNCHANGED exit_code
    /\ UNCHANGED <<config, zone_resp, zone_id, records, new_ip, any_updated, idx,
                   net, updates>>

\* get_zone_id(zone_name), and main up to the call of get_dns_records.
ResolveZone ==
    /\ pc = "get_zone_id"
    /\ \E r \in JsonResponses(ZoneLists) :
        LET out == cf_get(r) IN
        /\ net' = Append(net, NetEntry("zones", r, out.raised))
        /\ IF AbortsRun(out.raised)
           THEN Return(ExitNetworkError) /\ UNCHANGED <<zone_resp, zone_id>>
           ELSE /\ zone_resp' = out.json
                /\ zone_id' = get_zone_id(out.json)
                /\ IF ~Truthy(zone_id') THEN Return(ExitNoZone)
                   ELSE pc' = "get_dns_records" /\ UNCHANGED exit_code
    /\ UNCHANGED <<config, zone_name, dns_name, records, new_ip, any_updated, idx,
                   updates>>

\* get_dns_records(zone_id, dns_name, 'A'), and main up to get_public_ip.
ListRecords ==
    /\ pc = "get_dns_records"
    /\ \E r \in JsonResponses(RecordLists) :
        LET out == cf_get(r) IN
        /\ net' = Append(net, NetEntry("dns_records", r, out.raised))
        /\ IF AbortsRun(out.raised)
           THEN Return(ExitNetworkError) /\ UNCHANGED records
           ELSE /\ records' = get_dns_records(out.json)
                /\ IF records' = <<>> THEN Return(ExitNoRecords)
                   ELSE pc' = "get_public_ip" /\ UNCHANGED exit_code
    /\ UNCHANGED <<config, zone_name, dns_name, zone_resp, zone_id, new_ip,
                   any_updated, idx, updates>>

\* new_ip = get_public_ip()
FetchPublicIp ==
    /\ pc = "get_public_ip"
    /\ \E r \in IpResponses :
        LET out == get_public_ip(r) IN
        /\ net' = Append(net, NetEntry("ipify", r, out.raised))
        /\ IF AbortsRun(out.raised)
           THEN Return(ExitNetworkError) /\ UNCHANGED new_ip
           ELSE new_ip' = out.ip /\ pc' = "for" /\ UNCHANGED exit_code
    /\ UNCHANGED <<config, zone_name, dns_name, zone_resp, zone_id, records,
                   any_updated, idx, updates>>

\* One call of update_a_record, as the log keeps it.
UpdateEntry(i, zid, rid, ip, data, out) ==
    [index |-> i, zone_id |-> zid, record_id |-> rid, new_ip |-> ip, data |-> data,
     sent |-> out.sent, raised |-> out.raised, resp |-> out.resp]

\* After the loop's body for records[idx]: the next record, or the end.
LoopNext(updated) ==
    IF idx < Len(records)
    THEN idx' = idx + 1 /\ UNCHANGED <<pc, exit_code>>
    ELSE Return(Finalize(updated)) /\ UNCHANGED idx

\* One iteration of the loop over records (and, after the last one, the
\* end of main).
ReconcileRecord ==
    /\ pc = "for"
    /\ idx <= Len(records)
    /\ LET record == records[idx]
           data == UpdateData(new_ip) IN
       IF UpToDate(record, new_ip)
       THEN LoopNext(any_updated) /\ UNCHANGED <<any_updated, net, updates>>
       ELSE \E r \in PatchResponses(data) :
            LET out == cf_patch(DRY_RUN, data, r) IN
            /\ updates' = Append(updates,
                    UpdateEntry(idx, zone_id, record.id, new_ip, data, out))
            /\ net' = IF out.sent
                      THEN Append(net, NetEntry("patch", r, out.raised))
                      ELSE net
            /\ IF AbortsRun(out.raised)
               THEN Return(ExitNetworkError) /\ UNCHANGED <<any_updated, idx>>
               ELSE any_updated' = TRUE /\ LoopNext(TRUE)
    /\ UNCHANGED <<config, zone_name, dns_name, zone_resp, zone_id, records, new_ip>>

Next == Validate \/ ResolveZone \/ ListRecords \/ FetchPublicIp \/ ReconcileRecord

Spec == Init /\ [][Next]_vars

\* --------------------------------------------------------------- claims
Done == pc = "done"

\* The public IP was fetched: the run reached the loop over records.
Fetched == new_ip # None

\* The records whose stored content is not the fetched IP, by position.
Differing == {i \in 1..Len(records) : records[i].content # new_ip}
UpdatedIdx == {updates[k].index : k \in 1..Len(updates)}
NoUpdateRaised == \A k \in 1..Len(updates) : ~updates[k].raised
Kinds == {net[i].kind : i \in 1..Len(net)}

\* Each update call is for a listed record and carries the fetched IP.
UpdatesWellFormed ==
    \A k \in 1..Len(updates) :
        /\ updates[k].index \in 1..Len(records)
        /\ updates[k].record_id = records[updates[k].index].id
        /\ updates[k].zone_id = zone_id
        /\ updates[k].new_ip = new_ip

ExactlyDifferingUpdated ==
    /\ UpdatedIdx = Differing
    /\ Len(updates) = Cardinality(Differing)
    /\ UpdatesWellFormed

\* C1 as stated: every finished run that reached the loop with at least one
\* differing record has updated exactly the differing records, once each,
\* with the fetched IP, and returns 0.
C1_AsStated ==
    (Done /\ Fetched /\ Differing # {}) => (ExactlyDifferingUpdated /\ exit_code = 0)

\* C1 amended: the same, for the runs in which no update call raises a
\* transport error; and in every state, update calls go only to differing
\* records, at most once each, with the fetched IP.
C1_Updates ==
    /\ (Done /\ Fetched /\ Differing # {} /\ NoUpdateRaised)
            => (ExactlyDifferingUpdated /\ exit_code = 0)
    /\ UpdatedIdx \subseteq Differing
    /\ Len(updates) = Cardinality(UpdatedIdx)
    /\ UpdatesWellFormed

C1_Witness ==
    /\ Done /\ Fetched /\ ~DRY_RUN /\ exit_code = 0
    /\ Len(records) = 2 /\ Differing = {2} /\ UpdatedIdx = {2}
    /\ updates[1].new_ip = "192.0.2.100"

\* C2: a finished run whose listing is non-empty and whose every record
\* holds the fetched IP made no update call, sent no PATCH, and returns 7.
C2_AlreadyCurrent ==
    (Done /\ Fetched /\ Len(records) > 0 /\ Differing = {})
        => (updates = <<>> /\ "patch" \notin Kinds /\ exit_code = 7)

C2_Witness ==
    Done /\ Fetched /\ Len(records) = 2 /\ Differing = {} /\ exit_code = 7

\* The record listing was answered (cf_get returned) with no usable record.
ListedEmpty ==
    /\ \E i \in 1..Len(net) : net[i].kind = "dns_records" /\ ~net[i].raised
    /\ records = <<>>

\* C3: when the record listing comes back empty the run returns 1, and
\* neither the public IP is fetched nor any update call made.
C3_AsStated ==
    ListedEmpty => (Done /\ exit_code = 1 /\ "ipify" \notin Kinds /\ updates = <<>>)

\* C4: in dry-run mode no PATCH is sent, every update call gets the
\* synthetic success value carrying its payload, and a finished run that had
\* a differing record returns 0, the code a real run whose PATCHes succeed
\* returns there.
C4_DryRun ==
    /\ DRY_RUN =>
        /\ "patch" \notin Kinds
        /\ \A k \in 1..Len(updates) :
              /\ ~updates[k].sent
              /\ ~updates[k].raised
              /\ updates[k].resp = [success |-> TRUE, result |-> [content |-> new_ip]]
        /\ (Done /\ Fetched /\ Differing # {}) => (UpdatedIdx = Differing /\ exit_code = 0)
    /\ (~DRY_RUN /\ Done /\ Fetched /\ Differing # {} /\ NoUpdateRaised) => exit_code = 0

C4_Witness ==
    DRY_RUN /\ Done /\ Fetched /\ Differing = {1, 2} /\ Len(updates) = 2 /\ exit_code = 0

TokenMissing == CLOUDFLARE_API_TOKEN = None \/ CLOUDFLARE_API_TOKEN = ""

\* C5: with the credential unset or empty the run returns 2 whatever the
\* zone and record names are, and issues no request at all; an update call
\* is only ever made with a non-empty credential.
C5_MissingToken ==
    /\ TokenMissing => (net = <<>> /\ updates = <<>> /\ (Done => exit_code = 2))
    /\ updates # <<>> => ~TokenMissing

C5_Witness ==
    /\ Done /\ CLOUDFLARE_API_TOKEN = "" /\ exit_code = 2
    /\ argv.zone = "example" /\ environ.name = "example"

Absent(flag, env) == (flag = None \/ flag = "") /\ (env = None \/ env = "")
NamesAbsent == Absent(argv.zone, environ.zone) \/ Absent(argv.name, environ.name)

\* C6: with the credential present and the zone name or the record name
\* absent (from the flag and from the environment), the run returns 6 and
\* issues no request.
C6_MissingNames ==
    (~TokenMissing /\ NamesAbsent)
        => (net = <<>> /\ updates = <<>> /\ (Done => exit_code = 6))

C6_Witness ==
    /\ Done /\ ~TokenMissing /\ exit_code = 6
    /\ argv.zone = "example" /\ Absent(argv.name, environ.name)

\* The zone lookup was answered (cf_get returned) and the answer holds no
\* zone: it is marked unsuccessful, or its result set is empty.
ZoneAnswered == \E i \in 1..Len(net) : net[i].kind = "zones" /\ ~net[i].raised
AnswerHoldsNoZone ==
    \/ ~(zone_resp.has_success /\ zone_resp.success)
    \/ ~zone_resp.has_result
    \/ Len(zone_resp.result) = 0

\* C7: such an answer makes get_zone_id return None without raising; the
\* run returns 4 and issues no further request.
C7_ZoneNotFound ==
    (ZoneAnswered /\ AnswerHoldsNoZone)
        => (zone_id = None /\ Done /\ exit_code = 4 /\ Len(net) = 1 /\ updates = <<>>)

C7_Witness ==
    /\ ZoneAnswered /\ Done /\ exit_code = 4
    /\ zone_resp.has_success /\ ~zone_resp.success /\ Len(zone_resp.result) > 0

\* C8: a transport error raised by the public-IP fetch or by a PATCH is the
\* run's last request and its last update call: the run is over, returns 3,
\* and a raise in the public-IP fetch leaves no update call at all.
C8_AbortOnError ==
    /\ \A i \in 1..Len(net) :
          (net[i].kind \in {"ipify", "patch"} /\ net[i].raised)
              => (i = Len(net) /\ Done /\ exit_code = 3)
    /\ \A i \in 1..Len(net) :
          (net[i].kind = "ipify" /\ net[i].raised) => updates = <<>>
    /\ \A k \in 1..Len(updates) :
          updates[k].raised => (k = Len(updates) /\ Done /\ exit_code = 3)

C8_Witness ==
    /\ Done /\ exit_code = 3 /\ Len(records) = 2
    /\ Len(updates) = 1 /\ updates[1].raised /\ updates[1].index = 1
    /\ records[2].content # new_ip

Non2xx(e) == ~e.exc /\ ~(e.status >= 200 /\ e.status < 300)

\* C9: a run in which any request got a non-2xx status returns 3, and the
\* body of a non-2xx public-IP response never becomes an update's address.
C9_AsStated ==
    /\ (Done /\ \E i \in 1..Len(net) : Non2xx(net[i])) => exit_code = 3
    /\ (\E i \in 1..Len(net) : net[i].kind = "ipify" /\ Non2xx(net[i]))
            => updates = <<>>

Rank(kind) ==
    CASE kind = "zones" -> 1
      [] kind = "dns_records" -> 2
      [] kind = "ipify" -> 3
      [] kind = "patch" -> 4

\* C10: the requests are the zone lookup, the record listing, the public-IP
\* fetch and then PATCHes, each of the first three once; nothing follows a
\* raised error; update calls follow the list order, one per record at most,
\* all with the fetched IP and a payload of the content field alone; every
\* PATCH sent belongs to one update call.
C10_CallOrder ==
    /\ \A i \in 1..Len(net) : Rank(net[i].kind) = (IF i <= 3 THEN i ELSE 4)
    /\ \A i \in 1..Len(net) : net[i].raised => i = Len(net)
    /\ \A k, l \in 1..Len(updates) : k < l => updates[k].index < updates[l].index
    /\ UpdatesWellFormed
    /\ \A k \in 1..Len(updates) : updates[k].data = [content |-> new_ip]
    /\ Cardinality({i \in 1..Len(net) : net[i].kind = "patch"})
          = Cardinality({k \in 1..Len(updates) : updates[k].sent})
    /\ updates # <<>> => Len(net) >= 3

C10_Witness ==
    /\ Done /\ ~DRY_RUN /\ exit_code = 0 /\ Len(net) = 5
    /\ net[4].kind = "patch" /\ net[5].kind = "patch"
    /\ updates[1].index = 1 /\ updates[2].index = 2

====
